---- MODULE Spec2Model ----
(***************************************************************************)
(* The call-admission rate limiter of AutoTrade's AbstractConnection       *)
(* (src/connection/base.py): the call-field registry, the window eviction  *)
(* refreshCallField, the admission gate isPossibleCall, the set of         *)
(* tolerated errors with addExceptionsForToleration and                    *)
(* removeExceptionsForToleration, and the reserve / execute / settle       *)
(* envelope _makeCallSync / _makeCallAsync.                                *)
(*                                                                         *)
(* A call field is the dict built at base.py:110-112, modelled as a record *)
(* with the same keys.  history is a queue.PriorityQueue of                *)
(* (timestamp, weight) tuples: its observable behaviour (get() returns the *)
(* least tuple) is that of a sequence kept sorted by tuple order.          *)
(* Time is an integer clock; datetime.min is a value below every clock     *)
(* value minus every interval.                                             *)
(***************************************************************************)
EXTENDS Integers, Sequences, FiniteSets, TLC

VARIABLES callLimits, catching, catchingTuple, now, callers, last, nops

vars == <<callLimits, catching, catchingTuple, now, callers, last, nops>>

(***************************************************************************)
(* Bounds of the model.                                                    *)
(***************************************************************************)
MaxTime == 2
MaxOps == 3
MaxLen == 3

(***************************************************************************)
(* Input domains.                                                          *)
(***************************************************************************)
NoneName == "<None>"
EmptyNames == {NoneName, ""}
FieldNames == {"default", "orders"}
NameArgs == EmptyNames \cup FieldNames
\* callFieldName not passed by the caller (base.py:199).  A callWeight not
\* passed is the weight 0 (base.py:200).
Absent == "<absent>"
CallNames == EmptyNames \cup {Absent} \cup FieldNames
\* An argument that is no int, float or Decimal (base.py:100, 102), such as a
\* string: a value apart from the numbers of the model, which only the
\* isinstance test tells from them.
NonNumeric == 99
IsNumeric(x) == x # NonNumeric
Intervals == {0, 1, 2, NonNumeric}
Capacities == {0, 2, NonNumeric}
Weights == {-1, 0, 1, 2, 3}
Kinds == {"sync", "async"}
Callers == {1, 2}

\* datetime.min (base.py:112, 130): earlier than every timestamp of the model.
DatetimeMin == -100

\* What the wrapped method does when it runs: returns, or raises an error of
\* one of these kinds.  KeyboardInterrupt stands for every error that derives
\* from BaseException but not from Exception.
OpBehaviours == {"ok", "AutoTradeConnectionError", "ValueError", "KeyboardInterrupt"}

\* What a method of the HTTP transport does: returns, or raises an error
\* of the connection, or raises RequestTimeout when the server does not
\* answer in time (http/errors.py:37-41).
HttpBehaviours == {"ok", "AutoTradeConnectionError", "RequestTimeout"}

\* _defaultCatching (base.py:26), copied into __catching_set and
\* __catching_tuple (base.py:50-51).
DefaultCatching == {"AutoTradeConnectionError"}

\* The error classes that derive from class k (errors.py:12-54,
\* http/errors.py:12-41 and the builtins): an except clause for k catches
\* them too.
DerivedFrom(k) ==
    IF k = "AutoTradeConnectionError"
    THEN {"AutoTradeConnectionError", "InvalidError", "InvalidTypeError",
          "CallLimitExceededError"}
    ELSE IF k = "InvalidError" THEN {"InvalidError", "InvalidTypeError"}
    ELSE IF k = "TypeError" THEN {"TypeError", "InvalidTypeError"}
    ELSE IF k = "HTTPConnectionError" THEN {"HTTPConnectionError", "RequestTimeout"}
    ELSE {k}

\* What a caller can hand to addExceptionsForToleration and
\* removeExceptionsForToleration, and what __catching_set holds: an error
\* class, an instance of an error class, or something that is no error at
\* all (a string).
ClassOf(k) == [form |-> "class", kind |-> k]
InstanceOf(k) == [form |-> "instance", kind |-> k]
NotAnError == [form |-> "other", kind |-> "str"]
TolerationArgs ==
    {ClassOf("AutoTradeConnectionError"), ClassOf("ValueError"),
     InstanceOf("AutoTradeConnectionError"), InstanceOf("ValueError"), NotAnError}

\* `isinstance(givenError, Exception)` (base.py:163, 177): true of an
\* instance of an error class, false of the class itself.
IsExceptionInstance(x) == x.form = "instance"

\* `givenError in _defaultCatching` (base.py:180)
InDefaultCatching(x) == x.form = "class" /\ x.kind \in DefaultCatching

\* An except clause accepts a tuple of classes only: with anything else in
\* it, matching an error against the clause raises TypeError.
CatchingValid(cs) == \A x \in cs : x.form = "class"

\* `except self.__catching_tuple` (base.py:217, 260) matches error e.
\* __catching_tuple is tuple(__catching_set) after every operation on the
\* set (base.py:51, 164, 168, 178, 181, 185).
IsTolerated(e) ==
    \E x \in catchingTuple : x.form = "class" /\ e \in DerivedFrom(x.kind)

\* `except Exception` (base.py:220, 263)
IsOrdinaryError(e) ==
    e \in {"AutoTradeConnectionError", "InvalidError", "InvalidTypeError",
           "CallLimitExceededError", "ValueError", "KeyError", "TypeError",
           "HTTPConnectionError", "RequestTimeout"}

(***************************************************************************)
(* queue.PriorityQueue of (timestamp, weight) tuples.                      *)
(***************************************************************************)
TupleLess(a, b) == a[1] < b[1] \/ (a[1] = b[1] /\ a[2] < b[2])

\* PriorityQueue.put
PQPut(h, e) ==
    LET k == Cardinality({i \in 1..Len(h) : ~TupleLess(e, h[i])})
    IN  SubSeq(h, 1, k) \o <<e>> \o SubSeq(h, k + 1, Len(h))

\* PriorityQueue.get: the least tuple, and the queue without it
PQFirst(h) == Head(h)
PQRest(h) == Tail(h)

RECURSIVE SumWeights(_)
SumWeights(h) == IF h = <<>> THEN 0 ELSE Head(h)[2] + SumWeights(Tail(h))

(***************************************************************************)
(* addCallField (base.py:77-112)                                           *)
(***************************************************************************)
\* NewCallField with oldest_timestamp set to a time of the clock instead of
\* datetime.min.
NewCallFieldStamped(timeInterval, maxWeight) ==
    [time_interval |-> timeInterval, max_weight |-> maxWeight,
     current_weight |-> 0, reserved_weight |-> 0,
     oldest_timestamp |-> 0, history |-> <<>>]

NewCallField(timeInterval, maxWeight) ==
    [time_interval |-> timeInterval, max_weight |-> maxWeight,
     current_weight |-> 0, reserved_weight |-> 0,
     oldest_timestamp |-> DatetimeMin, history |-> <<>>]

\* AddCallFieldCheck without the test for a name that is registered already
\* (base.py:98-99 left out).
AddCallFieldCheckNoDuplicate(cl, name, timeInterval, maxWeight) ==
    IF name = NoneName THEN "InvalidError"
    ELSE IF name = "" THEN "InvalidError"
    ELSE IF ~(IsNumeric(maxWeight) /\ maxWeight > 0) THEN "InvalidError"
    ELSE IF ~(IsNumeric(timeInterval) /\ timeInterval > 0) THEN "InvalidError"
    ELSE "ok"

\* The validity checks of base.py:94-103; "ok" when all pass.
AddCallFieldCheck(cl, name, timeInterval, maxWeight) ==
    IF name = NoneName THEN "InvalidError"
    ELSE IF name = "" THEN "InvalidError"
    ELSE IF name \in DOMAIN cl THEN "InvalidError"
    ELSE IF ~(IsNumeric(maxWeight) /\ maxWeight > 0) THEN "InvalidError"
    ELSE IF ~(IsNumeric(timeInterval) /\ timeInterval > 0) THEN "InvalidError"
    ELSE "ok"

\* base.py:110 assigning a new dict to self.callLimits instead of the key.
RegisteredAlone(cl, name, f) == [n \in {name} |-> f]

Registered(cl, name, f) == [n \in (DOMAIN cl) \cup {name} |-> IF n = name THEN f ELSE cl[n]]

(***************************************************************************)
(* refreshCallField (base.py:114-130): the while loop over the history,    *)
(* with `now` read once at base.py:122.                                    *)
(***************************************************************************)
\* RefreshLoop with the comparison of base.py:125 made inclusive: an entry
\* exactly time_interval old is kept.
RECURSIVE RefreshLoopInclusive(_, _)
RefreshLoopInclusive(f, t) ==
    IF f.history = <<>>
    THEN [f EXCEPT !.oldest_timestamp = DatetimeMin]
    ELSE LET e == PQFirst(f.history)
         IN  IF t - f.time_interval <= e[1]
             THEN [f EXCEPT !.history = PQPut(PQRest(f.history), e),
                            !.oldest_timestamp = e[1]]
             ELSE RefreshLoopInclusive([f EXCEPT !.history = PQRest(f.history),
                                                 !.current_weight = @ - e[2]], t)

\* RefreshLoop with base.py:129 moved before the test of base.py:125: the
\* weight of the entry that is put back is subtracted too.
RECURSIVE RefreshLoopSubtractFirst(_, _)
RefreshLoopSubtractFirst(f, t) ==
    IF f.history = <<>>
    THEN [f EXCEPT !.oldest_timestamp = DatetimeMin]
    ELSE LET e == PQFirst(f.history)
         IN  IF t - f.time_interval < e[1]
             THEN [f EXCEPT !.history = PQPut(PQRest(f.history), e),
                            !.current_weight = @ - e[2],
                            !.oldest_timestamp = e[1]]
             ELSE RefreshLoopSubtractFirst([f EXCEPT !.history = PQRest(f.history),
                                                     !.current_weight = @ - e[2]], t)

\* RefreshLoop without base.py:126: the entry found inside the window is
\* not put back.
RECURSIVE RefreshLoopNoPutBack(_, _)
RefreshLoopNoPutBack(f, t) ==
    IF f.history = <<>>
    THEN [f EXCEPT !.oldest_timestamp = DatetimeMin]
    ELSE LET e == PQFirst(f.history)
         IN  IF t - f.time_interval < e[1]
             THEN [f EXCEPT !.history = PQRest(f.history),
                            !.oldest_timestamp = e[1]]
             ELSE RefreshLoopNoPutBack([f EXCEPT !.history = PQRest(f.history),
                                                 !.current_weight = @ - e[2]], t)

RECURSIVE RefreshLoop(_, _)
RefreshLoop(f, t) ==
    IF f.history = <<>>
    THEN [f EXCEPT !.oldest_timestamp = DatetimeMin]
    ELSE LET e == PQFirst(f.history)
         IN  IF t - f.time_interval < e[1]
             THEN [f EXCEPT !.history = PQPut(PQRest(f.history), e),
                            !.oldest_timestamp = e[1]]
             ELSE RefreshLoop([f EXCEPT !.history = PQRest(f.history),
                                        !.current_weight = @ - e[2]], t)

\* refreshCallField evicting from every field of the registry, not only
\* from the one named.
RefreshCallFieldAll(cl, name, t) == [n \in DOMAIN cl |-> RefreshLoop(cl[n], t)]

RefreshCallField(cl, name, t) == [cl EXCEPT ![name] = RefreshLoop(cl[name], t)]

(***************************************************************************)
(* isPossibleCall (base.py:132-151).  The result is the returned boolean   *)
(* ("True" / "False") or the kind of the error raised, together with the   *)
(* registry as the call leaves it.  base.py:149 reads the key              *)
(* "oldest_time", which no call field has (base.py:110-112 creates         *)
(* "oldest_timestamp"): the dict lookup raises KeyError.                   *)
(***************************************************************************)
\* StalenessKey naming the key that call fields do have.
StalenessKeyPresent == "oldest_timestamp"

StalenessKey == "oldest_time"

\* base.py:148-151 as the variants of isPossibleCall below have it.
CapacityCheck(cl, name, weight, t) ==
    IF StalenessKey \notin DOMAIN cl[name] THEN [res |-> "KeyError", cl |-> cl]
    ELSE LET cl2 == IF cl[name][StalenessKey] # DatetimeMin
                       /\ t - cl[name].time_interval > cl[name].oldest_timestamp
                    THEN RefreshCallField(cl, name, t) ELSE cl
             f == cl2[name]
         IN  [res |-> IF f.current_weight + f.reserved_weight + weight <= f.max_weight
                      THEN "True" ELSE "False",
              cl |-> cl2]

\* isPossibleCall looking the name up in the registry before the test for
\* an empty name (base.py:142 and 143 exchanged).
IsPossibleCallRegistryFirst(cl, name, weight, t) ==
    IF name \notin DOMAIN cl THEN [res |-> "InvalidError", cl |-> cl]
    ELSE IF name \in EmptyNames THEN [res |-> "True", cl |-> cl]
    ELSE IF weight = 0 THEN [res |-> "True", cl |-> cl]
    ELSE IF weight < 0 THEN [res |-> "InvalidError", cl |-> cl]
    ELSE CapacityCheck(cl, name, weight, t)

\* isPossibleCall rejecting every weight that is not positive (base.py:144
\* left out and base.py:145 testing weight <= 0).
IsPossibleCallZeroRejected(cl, name, weight, t) ==
    IF name \in EmptyNames THEN [res |-> "True", cl |-> cl]
    ELSE IF name \notin DOMAIN cl THEN [res |-> "InvalidError", cl |-> cl]
    ELSE IF weight <= 0 THEN [res |-> "InvalidError", cl |-> cl]
    ELSE CapacityCheck(cl, name, weight, t)

\* isPossibleCall testing for weight 0 before it looks the name up
\* (base.py:143 and 144 exchanged).
IsPossibleCallZeroFirst(cl, name, weight, t) ==
    IF name \in EmptyNames THEN [res |-> "True", cl |-> cl]
    ELSE IF weight = 0 THEN [res |-> "True", cl |-> cl]
    ELSE IF name \notin DOMAIN cl THEN [res |-> "InvalidError", cl |-> cl]
    ELSE IF weight < 0 THEN [res |-> "InvalidError", cl |-> cl]
    ELSE CapacityCheck(cl, name, weight, t)

\* isPossibleCall without the test for a negative weight (base.py:145 left
\* out).
IsPossibleCallNegativeUnchecked(cl, name, weight, t) ==
    IF name \in EmptyNames THEN [res |-> "True", cl |-> cl]
    ELSE IF name \notin DOMAIN cl THEN [res |-> "InvalidError", cl |-> cl]
    ELSE IF weight = 0 THEN [res |-> "True", cl |-> cl]
    ELSE CapacityCheck(cl, name, weight, t)

\* isPossibleCall taking the reservation itself: the weight is added to
\* reserved_weight before base.py:148 and the total is tested.
IsPossibleCallReserving(cl, name, weight, t) ==
    IF name \in EmptyNames THEN [res |-> "True", cl |-> cl]
    ELSE IF name \notin DOMAIN cl THEN [res |-> "InvalidError", cl |-> cl]
    ELSE IF weight = 0 THEN [res |-> "True", cl |-> cl]
    ELSE IF weight < 0 THEN [res |-> "InvalidError", cl |-> cl]
    ELSE CapacityCheck([cl EXCEPT ![name].reserved_weight = @ + weight], name, 0, t)

IsPossibleCall(cl, name, weight, t) ==
    IF name \in EmptyNames THEN [res |-> "True", cl |-> cl]
    ELSE IF name \notin DOMAIN cl THEN [res |-> "InvalidError", cl |-> cl]
    ELSE IF weight = 0 THEN [res |-> "True", cl |-> cl]
    ELSE IF weight < 0 THEN [res |-> "InvalidError", cl |-> cl]
    ELSE IF StalenessKey \notin DOMAIN cl[name] THEN [res |-> "KeyError", cl |-> cl]
    ELSE LET cl2 == IF cl[name][StalenessKey] # DatetimeMin
                       /\ t - cl[name].time_interval > cl[name].oldest_timestamp
                    THEN RefreshCallField(cl, name, t) ELSE cl
             f == cl2[name]
         IN  [res |-> IF f.current_weight + f.reserved_weight + weight <= f.max_weight
                      THEN "True" ELSE "False",
              cl |-> cl2]

(***************************************************************************)
(* addExceptionsForToleration (base.py:156-168) and                        *)
(* removeExceptionsForToleration (base.py:170-185): the loop over the      *)
(* arguments, on __catching_set cs.  The result is "None" or the kind of   *)
(* the error raised, with the set as the call leaves it: the arguments     *)
(* before the one that raises have taken effect.                           *)
(***************************************************************************)
RECURSIVE AddExceptions(_, _)
AddExceptions(cs, args) ==
    IF args = <<>> THEN [res |-> "None", cs |-> cs]
    ELSE IF ~IsExceptionInstance(Head(args)) THEN [res |-> "InvalidError", cs |-> cs]
    ELSE AddExceptions(cs \cup {Head(args)}, Tail(args))

\* RemoveExceptions looking the argument up in the set before the other two
\* tests (base.py:183 moved before base.py:177).
RECURSIVE RemoveExceptionsMemberFirst(_, _)
RemoveExceptionsMemberFirst(cs, args) ==
    IF args = <<>> THEN [res |-> "None", cs |-> cs]
    ELSE IF Head(args) \in cs THEN RemoveExceptionsMemberFirst(cs \ {Head(args)}, Tail(args))
    ELSE IF ~IsExceptionInstance(Head(args)) THEN [res |-> "InvalidTypeError", cs |-> cs]
    ELSE IF InDefaultCatching(Head(args)) THEN [res |-> "InvalidError", cs |-> cs]
    ELSE RemoveExceptionsMemberFirst(cs, Tail(args))

\* RemoveExceptions without base.py:184: the argument found in the set is
\* left in it.
RECURSIVE RemoveExceptionsNoRemove(_, _)
RemoveExceptionsNoRemove(cs, args) ==
    IF args = <<>> THEN [res |-> "None", cs |-> cs]
    ELSE IF ~IsExceptionInstance(Head(args)) THEN [res |-> "InvalidTypeError", cs |-> cs]
    ELSE IF InDefaultCatching(Head(args)) THEN [res |-> "InvalidError", cs |-> cs]
    ELSE RemoveExceptionsNoRemove(cs, Tail(args))

RECURSIVE RemoveExceptions(_, _)
RemoveExceptions(cs, args) ==
    IF args = <<>> THEN [res |-> "None", cs |-> cs]
    ELSE IF ~IsExceptionInstance(Head(args)) THEN [res |-> "InvalidTypeError", cs |-> cs]
    ELSE IF InDefaultCatching(Head(args)) THEN [res |-> "InvalidError", cs |-> cs]
    ELSE RemoveExceptions(cs \ {Head(args)}, Tail(args))

(***************************************************************************)
(* __catching_tuple as the two methods leave it, from the tuple tup and    *)
(* the set cs before the call.  Every way out of the loop assigns          *)
(* tuple(__catching_set): base.py:164 and 168, base.py:178, 181 and 185.   *)
(* The tuple is modelled by the set of its elements.                       *)
(***************************************************************************)
\* AddExceptionsTuple without base.py:164: the tuple is not rebuilt before
\* the InvalidError.
RECURSIVE AddExceptionsTupleStale(_, _, _)
AddExceptionsTupleStale(tup, cs, args) ==
    IF args = <<>> THEN cs
    ELSE IF ~IsExceptionInstance(Head(args)) THEN tup
    ELSE AddExceptionsTupleStale(tup, cs \cup {Head(args)}, Tail(args))

RECURSIVE AddExceptionsTuple(_, _, _)
AddExceptionsTuple(tup, cs, args) ==
    IF args = <<>> THEN cs
    ELSE IF ~IsExceptionInstance(Head(args)) THEN cs
    ELSE AddExceptionsTuple(tup, cs \cup {Head(args)}, Tail(args))

RECURSIVE RemoveExceptionsTuple(_, _, _)
RemoveExceptionsTuple(tup, cs, args) ==
    IF args = <<>> THEN cs
    ELSE IF ~IsExceptionInstance(Head(args)) THEN cs
    ELSE IF InDefaultCatching(Head(args)) THEN cs
    ELSE RemoveExceptionsTuple(tup, cs \ {Head(args)}, Tail(args))

(***************************************************************************)
(* The envelope `decorated` of _makeCallSync (base.py:196-229) and of      *)
(* _makeCallAsync (base.py:239-272).                                       *)
(***************************************************************************)
\* base.py:214-215, 257-258
Reserve(cl, name, weight) == [cl EXCEPT ![name].reserved_weight = @ + weight]

\* base.py:218, 261
Rollback(cl, name, weight) == [cl EXCEPT ![name].reserved_weight = @ - weight]

\* base.py:221-223, 226-228, 264-266, 269-271
Commit(cl, name, weight, t) ==
    [cl EXCEPT ![name].history = PQPut(@, <<t, weight>>),
               ![name].current_weight = @ + weight,
               ![name].reserved_weight = @ - weight]

\* The try statement around the method (base.py:216-229): which clause runs
\* for what the method did.  An error that is neither in __catching_tuple
\* nor an Exception matches no clause and leaves the field as it is; so
\* does any error when __catching_tuple holds something that is no class,
\* as matching against the first clause then raises TypeError.
Settle(cl, name, weight, outcome, t) ==
    IF outcome = "ok" THEN Commit(cl, name, weight, t)
    ELSE IF ~CatchingValid(catchingTuple) THEN cl
    ELSE IF IsTolerated(outcome) THEN Rollback(cl, name, weight)
    ELSE IF IsOrdinaryError(outcome) THEN Commit(cl, name, weight, t)
    ELSE cl

\* What the try statement hands to the caller for what the method did: the
\* result (base.py:229), the error raised again (base.py:219, 224) or passing
\* through, or the TypeError of the except clause.
Settled(outcome) ==
    IF outcome = "ok" THEN "ok"
    ELSE IF ~CatchingValid(catchingTuple) THEN "TypeError"
    ELSE outcome

\* EarlyExit without the return statement: the result of the method is
\* dropped and the caller gets None.
EarlyExitNoReturn(outcome) == IF outcome = "ok" THEN "None" ELSE outcome

\* What the early exit `return method(...)` (base.py:210) and
\* `return await method(...)` (base.py:253) hands to the caller for what the
\* method did: its result, or its error passing through.
EarlyExit(outcome) == outcome

\* reserved_weight, current_weight and the number of history entries of a
\* field, zeros for a name that is no field.
Account(cl, name) ==
    IF name \in DOMAIN cl
    THEN <<cl[name].reserved_weight, cl[name].current_weight, Len(cl[name].history)>>
    ELSE <<0, 0, 0>>

\* The change of the account of a field from registry cl to registry cl2,
\* added to the changes d.
Changed(d, cl, cl2, name) ==
    [i \in 1..3 |-> d[i] + Account(cl2, name)[i] - Account(cl, name)[i]]

(***************************************************************************)
(* Callers.  pc is the caller's place in `decorated`:                      *)
(*   idle     no call                                                      *)
(*   check    dispatched, before isPossibleCall (base.py:207)              *)
(*   reserve  admitted, before the reservation (base.py:214-215)           *)
(*   op       the method is running (base.py:210 or 216)                   *)
(*   done     `decorated` returned or raised; result says what             *)
(* The other fields are the arguments (kind of wrapper, callFieldName,     *)
(* callWeight) and bookkeeping of the call: what the caller got (result),  *)
(* what the method did when it ran (produced), whether the call passed the *)
(* gate into the reservation, whether the method ran, how much the call    *)
(* currently holds in reserved_weight, the account of the field when the   *)
(* call reached the gate (seen), the changes that the steps of the call    *)
(* have made to it (effect), the load of the field when the call was       *)
(* dispatched and the callers that were in flight then.                    *)
(***************************************************************************)
IdleCaller ==
    [pc |-> "idle", kind |-> "sync", name |-> "", weight |-> 0,
     result |-> "none", produced |-> "none", admitted |-> FALSE, ran |-> FALSE,
     held |-> 0, seen |-> <<0, 0, 0>>, effect |-> <<0, 0, 0>>,
     startLoad |-> 0, peers |-> {}]

InFlight(c) == callers[c].pc \in {"check", "reserve", "op"}

\* Committed and reserved weight of a field, 0 for a name that is no field.
Load(cl, name) ==
    IF name \in DOMAIN cl THEN cl[name].current_weight + cl[name].reserved_weight ELSE 0

\* __init__ (base.py:38-59) with callLimits = {"default": (2, 2)}: one
\* addCallField per key of the dict (base.py:52-55).
InitialLimits == <<"default", 2, 2>>

Constructed ==
    Registered(<<>>, InitialLimits[1], NewCallField(InitialLimits[2], InitialLimits[3]))

\* The record of the latest call of a public method: its arguments, its
\* result or the kind of its error, the time, the registry and the
\* tolerated set before it, whether it repeats the call before it (the
\* same method with the same name at the same time, which had returned),
\* and, for a removeExceptionsForToleration that follows an
\* addExceptionsForToleration with the same arguments, the result of that
\* call and the tolerated set before it.
NoCall ==
    [op |-> "none", name |-> "", weight |-> 0, args |-> <<>>, res |-> "none",
     at |-> 0, pre |-> <<>>, tol |-> {}, again |-> FALSE,
     undoes |-> [add |-> FALSE, res |-> "none", tol |-> {}]]

Init ==
    /\ callLimits = Constructed
    /\ catching = {ClassOf(k) : k \in DefaultCatching}
    /\ catchingTuple = {ClassOf(k) : k \in DefaultCatching}
    /\ now = 0
    /\ callers = [c \in Callers |-> IdleCaller]
    /\ last = NoCall
    /\ nops = 0

\* A public call of addCallField (base.py:77-112).
AddCallField(name, timeInterval, maxWeight) ==
    LET res == AddCallFieldCheck(callLimits, name, timeInterval, maxWeight)
    IN  /\ nops < MaxOps
        /\ nops' = nops + 1
        /\ callLimits' = IF res = "ok"
                         THEN Registered(callLimits, name, NewCallField(timeInterval, maxWeight))
                         ELSE callLimits
        /\ last' = [NoCall EXCEPT !.op = "addCallField", !.name = name,
                                   !.args = <<timeInterval, maxWeight>>, !.res = res,
                                   !.at = now, !.pre = callLimits, !.tol = catching]
        /\ UNCHANGED <<catching, catchingTuple, now, callers>>

\* A public call of refreshCallField (base.py:114-130); base.py:121 raises
\* KeyError for a name that is no field.
RefreshOp(name) ==
    /\ nops < MaxOps
    /\ nops' = nops + 1
    /\ callLimits' = IF name \in DOMAIN callLimits
                     THEN RefreshCallField(callLimits, name, now) ELSE callLimits
    /\ last' = [NoCall EXCEPT !.op = "refreshCallField", !.name = name,
                               !.res = IF name \in DOMAIN callLimits
                                       THEN "None" ELSE "KeyError",
                               !.at = now, !.pre = callLimits, !.tol = catching,
                               !.again = /\ last.op = "refreshCallField"
                                         /\ last.name = name /\ last.at = now
                                         /\ last.res = "None"]
    /\ UNCHANGED <<catching, catchingTuple, now, callers>>

\* A public call of isPossibleCall (base.py:132-151).
CheckCall(name, weight) ==
    LET r == IsPossibleCall(callLimits, name, weight, now)
    IN  /\ nops < MaxOps
        /\ nops' = nops + 1
        /\ callLimits' = r.cl
        /\ last' = [NoCall EXCEPT !.op = "isPossibleCall", !.name = name,
                                   !.weight = weight, !.res = r.res,
                                   !.at = now, !.pre = callLimits, !.tol = catching]
        /\ UNCHANGED <<catching, catchingTuple, now, callers>>

\* A public call of addExceptionsForToleration (base.py:156-168).
AddExceptionsForToleration(args) ==
    LET r == AddExceptions(catching, args)
    IN  /\ nops < MaxOps
        /\ nops' = nops + 1
        /\ catching' = r.cs
        /\ catchingTuple' = AddExceptionsTuple(catchingTuple, catching, args)
        /\ last' = [NoCall EXCEPT !.op = "addExceptionsForToleration", !.args = args,
                                   !.res = r.res, !.at = now, !.pre = callLimits,
                                   !.tol = catching]
        /\ UNCHANGED <<callLimits, now, callers>>

\* A public call of removeExceptionsForToleration (base.py:170-185).
RemoveExceptionsForToleration(args) ==
    LET r == RemoveExceptions(catching, args)
    IN  /\ nops < MaxOps
        /\ nops' = nops + 1
        /\ catching' = r.cs
        /\ catchingTuple' = RemoveExceptionsTuple(catchingTuple, catching, args)
        /\ last' = [NoCall EXCEPT !.op = "removeExceptionsForToleration", !.args = args,
                                   !.res = r.res, !.at = now, !.pre = callLimits,
                                   !.tol = catching,
                                   !.undoes = IF /\ last.op = "addExceptionsForToleration"
                                                 /\ last.args = args
                                              THEN [add |-> TRUE, res |-> last.res,
                                                    tol |-> last.tol]
                                              ELSE NoCall.undoes]
        /\ UNCHANGED <<callLimits, now, callers>>

\* A caller enters a decorated method (base.py:196-204, 239-247): without
\* callFieldName the call raises InvalidError at once.
Dispatch(c, kind, name, weight) ==
    /\ nops < MaxOps
    /\ nops' = nops + 1
    /\ callers[c].pc = "idle"
    /\ callers' = [callers EXCEPT ![c] =
          IF name = Absent
          THEN [IdleCaller EXCEPT !.pc = "done", !.kind = kind, !.name = name,
                                  !.result = "InvalidError"]
          ELSE [IdleCaller EXCEPT !.pc = "check", !.kind = kind, !.name = name,
                                  !.weight = weight,
                                  !.startLoad = Load(callLimits, name),
                                  !.peers = {d \in Callers : d # c /\ InFlight(d)}]]
    /\ UNCHANGED <<callLimits, catching, catchingTuple, now, last>>

\* base.py:207-210 (250-253): the gate and the two early exits.  In the
\* coroutine wrapper nothing between the gate and the return at base.py:272
\* suspends, and base.py:259 calls the coroutine function without awaiting
\* it: the call yields the coroutine object at once and raises nothing, so
\* the else clause commits and `decorated` returns the coroutine, not run.
GateStep(c) ==
    LET me == [callers[c] EXCEPT !.seen = Account(callLimits, callers[c].name)]
        r == IsPossibleCall(callLimits, me.name, me.weight, now)
        committed == Commit(Reserve(r.cl, me.name, me.weight), me.name, me.weight, now)
    IN  IF r.res \in {"InvalidError", "KeyError"}
        THEN /\ callLimits' = r.cl
             /\ callers' = [callers EXCEPT ![c] =
                   [me EXCEPT !.pc = "done", !.result = r.res,
                              !.effect = Changed(@, callLimits, r.cl, me.name)]]
        ELSE IF r.res = "False"
        THEN /\ callLimits' = r.cl
             /\ callers' = [callers EXCEPT ![c] =
                   [me EXCEPT !.pc = "done", !.result = "CallLimitExceededError",
                              !.effect = Changed(@, callLimits, r.cl, me.name)]]
        ELSE IF me.name \in EmptyNames \/ me.weight = 0
        THEN /\ callLimits' = r.cl
             /\ callers' = [callers EXCEPT ![c] =
                   [me EXCEPT !.pc = "op",
                              !.effect = Changed(@, callLimits, r.cl, me.name)]]
        ELSE IF me.kind = "sync"
        THEN /\ callLimits' = r.cl
             /\ callers' = [callers EXCEPT ![c] =
                   [me EXCEPT !.pc = "reserve", !.admitted = TRUE,
                              !.effect = Changed(@, callLimits, r.cl, me.name)]]
        ELSE /\ callLimits' = committed
             /\ callers' = [callers EXCEPT ![c] =
                   [me EXCEPT !.pc = "done", !.admitted = TRUE, !.result = "coroutine",
                              !.effect = Changed(@, callLimits, committed, me.name)]]

\* base.py:214-215
ReserveStep(c) ==
    LET me == callers[c]
        reserved == Reserve(callLimits, me.name, me.weight)
    IN  /\ callLimits' = reserved
        /\ callers' = [callers EXCEPT ![c] =
              [me EXCEPT !.pc = "op", !.held = me.weight,
                         !.effect = Changed(@, callLimits, reserved, me.name)]]

\* The method finishes, having done `op`.  On the early exit (base.py:210, 253) its result or
\* error is the caller's; after a reservation the try statement settles
\* (base.py:216-229) and then returns the result or re-raises the error.
OpStep(c, op) ==
    LET me == callers[c]
        settled == Settle(callLimits, me.name, me.weight, op, now)
    IN  IF ~me.admitted
        THEN /\ callLimits' = callLimits
             /\ callers' = [callers EXCEPT ![c] =
                   [me EXCEPT !.pc = "done", !.ran = TRUE, !.produced = op,
                              !.result = EarlyExit(op)]]
        ELSE /\ callLimits' = settled
             /\ callers' = [callers EXCEPT ![c] =
                   [me EXCEPT !.pc = "done", !.ran = TRUE, !.produced = op,
                              !.result = Settled(op),
                              !.held = @ + Account(settled, me.name)[1]
                                         - Account(callLimits, me.name)[1],
                              !.effect = Changed(@, callLimits, settled, me.name)]]

\* The next step of caller c inside `decorated`; op is what the method does
\* if this is the step in which it finishes.
Step(c, op) ==
    /\ InFlight(c)
    /\ CASE callers[c].pc = "check" -> op = "ok" /\ GateStep(c)
         [] callers[c].pc = "reserve" -> op = "ok" /\ ReserveStep(c)
         [] callers[c].pc = "op" -> OpStep(c, op)
    /\ UNCHANGED <<catching, catchingTuple, now, last, nops>>

\* The caller has its result and is free to call again.
Return(c) ==
    /\ callers[c].pc = "done"
    /\ callers' = [callers EXCEPT ![c] = IdleCaller]
    /\ UNCHANGED <<callLimits, catching, catchingTuple, now, last, nops>>

\* The clock read by datetime.now() advances.
Tick ==
    /\ now < MaxTime
    /\ now' = now + 1
    /\ UNCHANGED <<callLimits, catching, catchingTuple, callers, last, nops>>

(***************************************************************************)
(* Spec: a connection constructed with one call field, used by two         *)
(* concurrent callers of decorated methods.                                *)
(***************************************************************************)
Next ==
    \/ \E c \in Callers, k \in Kinds, name \in CallNames, w \in Weights :
          Dispatch(c, k, name, w)
    \/ \E c \in Callers, op \in OpBehaviours : Step(c, op)
    \/ \E c \in Callers : Return(c)
    \/ Tick

Spec == Init /\ [][Next]_vars

(***************************************************************************)
(* SpecApi: the same connection used through its public methods            *)
(* addCallField, refreshCallField, isPossibleCall,                         *)
(* addExceptionsForToleration and removeExceptionsForToleration.           *)
(***************************************************************************)
\* The argument lists of the toleration methods: up to two arguments.
TolerationArgLists == UNION {[1..n -> TolerationArgs] : n \in 0..2}

NextApi ==
    \/ \E name \in NameArgs, ti \in Intervals, mw \in Capacities : AddCallField(name, ti, mw)
    \/ \E name \in FieldNames : RefreshOp(name)
    \/ \E name \in NameArgs, w \in Weights : CheckCall(name, w)
    \/ \E args \in TolerationArgLists : AddExceptionsForToleration(args)
    \/ \E args \in TolerationArgLists : RemoveExceptionsForToleration(args)
    \/ Tick

SpecApi == Init /\ [][NextApi]_vars

(***************************************************************************)
(* SpecRefresh: refreshCallField applied to a call field whose history     *)
(* holds any entries, put in any order, at any time of the clock.          *)
(***************************************************************************)
EntryWeights == {1, 2}
RefreshIntervals == {1, 2}
Entries == (0..MaxTime) \X EntryWeights
EntryLists == UNION {[1..n -> Entries] : n \in 0..MaxLen}

\* The queue after PriorityQueue.put of each element of es in turn.
RECURSIVE PutAll(_, _)
PutAll(h, es) == IF es = <<>> THEN h ELSE PutAll(PQPut(h, Head(es)), Tail(es))

InitRefresh ==
    /\ \E es \in EntryLists, ti \in RefreshIntervals, fresh \in BOOLEAN :
          LET h == PutAll(<<>>, es)
          IN  callLimits = Registered(<<>>, "default",
                  [NewCallField(ti, InitialLimits[3]) EXCEPT
                      !.history = h,
                      !.current_weight = SumWeights(h),
                      !.oldest_timestamp = IF fresh /\ h # <<>> THEN h[1][1]
                                           ELSE DatetimeMin])
    /\ catching = {ClassOf(k) : k \in DefaultCatching}
    /\ catchingTuple = {ClassOf(k) : k \in DefaultCatching}
    /\ now \in 0..MaxTime
    /\ callers = [c \in Callers |-> IdleCaller]
    /\ last = NoCall
    /\ nops = 0

NextRefresh ==
    \/ \E name \in FieldNames : RefreshOp(name)
    \/ Tick

SpecRefresh == InitRefresh /\ [][NextRefresh]_vars

(***************************************************************************)
(* SpecFields: a connection with one or two call fields that hold any      *)
(* committed entries their capacity allows, used through addCallField,     *)
(* refreshCallField, isPossibleCall and the decorated methods.             *)
(***************************************************************************)
\* The histories a field of capacity InitialLimits[3] can hold: the commits
\* of base.py:221-222 and 226-227 put (datetime.now(), callWeight).
FieldHistories ==
    {h \in {PutAll(<<>>, es) : es \in UNION {[1..n -> Entries] : n \in 0..(MaxLen - 1)}} :
        SumWeights(h) <= InitialLimits[3]}

\* A call field after the commits of the entries of h: a commit puts the
\* entry and adds its weight, and leaves oldest_timestamp as it was
\* (base.py:221-223).
FieldWith(h, timeInterval) ==
    [NewCallField(timeInterval, InitialLimits[3]) EXCEPT
        !.history = h,
        !.current_weight = SumWeights(h)]

\* The caller of the decorated methods in SpecFields.
FirstCaller == CHOOSE c \in Callers : \A d \in Callers : c <= d

InitFields ==
    /\ now \in 0..MaxTime
    /\ \E h1 \in FieldHistories, h2 \in FieldHistories,
          ti \in RefreshIntervals, both \in BOOLEAN :
          /\ \A i \in 1..Len(h1) : h1[i][1] <= now
          /\ \A i \in 1..Len(h2) : h2[i][1] <= now
          /\ Len(h2) <= 1
          /\ callLimits =
                IF both
                THEN Registered(Registered(<<>>, "default", FieldWith(h1, ti)),
                                "orders", FieldWith(h2, InitialLimits[2]))
                ELSE Registered(<<>>, "default", FieldWith(h1, ti))
    /\ catching = {ClassOf(k) : k \in DefaultCatching}
    /\ catchingTuple = {ClassOf(k) : k \in DefaultCatching}
    /\ callers = [c \in Callers |-> IdleCaller]
    /\ last = NoCall
    /\ nops = 0

NextFields ==
    \/ \E name \in FieldNames : AddCallField(name, InitialLimits[2], InitialLimits[3])
    \/ \E name \in FieldNames : RefreshOp(name)
    \/ \E name \in FieldNames, w \in {0, 1} : CheckCall(name, w)
    \/ \E k \in Kinds, name \in FieldNames, w \in {0, 1} : Dispatch(FirstCaller, k, name, w)
    \/ \E op \in HttpBehaviours : Step(FirstCaller, op)
    \/ Return(FirstCaller)
    \/ Tick

SpecFields == InitFields /\ [][NextFields]_vars

(***************************************************************************)
(* SpecConstruct: __init__ (base.py:38-59) called with any callLimits      *)
(* argument, and the connection it made then refreshed and checked.        *)
(***************************************************************************)
\* The callLimits argument: None, a dict, or a value of another type.  A
\* dict is the sequence of its items <<name, interval, max weight>> in the
\* order of iteration, with distinct keys; a value of another type holds
\* elements or is empty ([], "", 0), which makes it false at base.py:56.
LimitEntries == NameArgs \X {0, 1, 2} \X {0, 2}
LimitItems ==
    {items \in UNION {[1..n -> LimitEntries] : n \in 0..2} :
        \A i, j \in 1..Len(items) : i # j => items[i][1] # items[j][1]}
ConstructorArgs ==
    {[form |-> "None", items |-> <<>>]}
    \cup {[form |-> "dict", items |-> items] : items \in LimitItems}
    \cup {[form |-> "other", items |-> items] : items \in {<<>>, <<InitialLimits>>}}

\* base.py:53-55: addCallField for each key in turn; an InvalidError of
\* addCallField ends the loop and the constructor.
RECURSIVE RegisterAll(_, _)
RegisterAll(cl, items) ==
    IF items = <<>> THEN [res |-> "None", cl |-> cl]
    ELSE LET e == Head(items)
             res == AddCallFieldCheck(cl, e[1], e[2], e[3])
         IN  IF res # "ok" THEN [res |-> res, cl |-> cl]
             ELSE RegisterAll(Registered(cl, e[1], NewCallField(e[2], e[3])), Tail(items))

\* __init__ without base.py:56: a callLimits that is no dict is ignored.
ConstructAnyAccepted(arg) ==
    IF arg.form = "dict" THEN RegisterAll(<<>>, arg.items)
    ELSE [res |-> "None", cl |-> <<>>]

\* __init__ (base.py:47-56): the registry starts empty; a dict is
\* registered key by key; anything else that is true raises InvalidError.
Construct(arg) ==
    IF arg.form = "dict" THEN RegisterAll(<<>>, arg.items)
    ELSE IF arg.form = "other" /\ arg.items # <<>>
    THEN [res |-> "InvalidError", cl |-> <<>>]
    ELSE [res |-> "None", cl |-> <<>>]

\* No connection has been constructed yet.
InitConstruct ==
    /\ callLimits = <<>>
    /\ catching = {ClassOf(k) : k \in DefaultCatching}
    /\ catchingTuple = {ClassOf(k) : k \in DefaultCatching}
    /\ now = 0
    /\ callers = [c \in Callers |-> IdleCaller]
    /\ last = NoCall
    /\ nops = 0

\* The call of the constructor.
ConstructOp(arg) ==
    LET r == Construct(arg)
    IN  /\ nops = 0
        /\ nops' = 1
        /\ callLimits' = r.cl
        /\ last' = [NoCall EXCEPT !.op = "__init__", !.name = arg.form,
                                   !.args = arg.items, !.res = r.res, !.at = now]
        /\ UNCHANGED <<catching, catchingTuple, now, callers>>

\* The constructor has returned a connection.
Built == nops > 0 /\ ~(last.op = "__init__" /\ last.res # "None")

NextConstruct ==
    \/ \E arg \in ConstructorArgs : ConstructOp(arg)
    \/ \E name \in FieldNames : Built /\ RefreshOp(name)
    \/ \E name \in FieldNames, w \in {0, 1} : Built /\ CheckCall(name, w)
    \/ Built /\ Tick

SpecConstruct == InitConstruct /\ [][NextConstruct]_vars

(***************************************************************************)
(* Properties                                                              *)
(***************************************************************************)
IsField(name) == name \in DOMAIN callLimits

\* The weight of the entries of h with a timestamp later than t - interval.
RECURSIVE FreshWeight(_, _, _)
FreshWeight(h, t, interval) ==
    IF h = <<>> THEN 0
    ELSE (IF Head(h)[1] > t - interval THEN Head(h)[2] ELSE 0)
         + FreshWeight(Tail(h), t, interval)

\* The load an admission check at time t has to count: the committed weight
\* still in the window and the reserved weight.
FreshLoad(cl, name, t) ==
    IF name \in DOMAIN cl
    THEN FreshWeight(cl[name].history, t, cl[name].time_interval) + cl[name].reserved_weight
    ELSE 0

\* Caller c takes the step of base.py:207 (250) in this transition.
GateTaken(c) == callers[c].pc = "check" /\ callers'[c].pc # "check"

\* `decorated` returns or raises for caller c in this transition.
Completes(c) == callers[c].pc \in {"check", "op"} /\ callers'[c].pc = "done"

PastGate(c) == callers[c].pc \in {"reserve", "op", "done"}

C3_ExactlyOneAdmitted ==
    \A c1, c2 \in Callers :
        ( /\ c1 # c2
          /\ c1 \in callers[c2].peers
          /\ PastGate(c1) /\ PastGate(c2)
          /\ callers[c1].name = callers[c2].name
          /\ IsField(callers[c1].name)
          /\ callers[c1].weight > 0 /\ callers[c2].weight > 0
          /\ callers[c1].startLoad + callers[c1].weight
                <= callLimits[callers[c1].name].max_weight
          /\ callers[c2].startLoad + callers[c2].weight
                <= callLimits[callers[c1].name].max_weight
          /\ callers[c2].startLoad + callers[c1].weight + callers[c2].weight
                > callLimits[callers[c1].name].max_weight )
        => \/ /\ callers[c1].admitted /\ ~callers[c2].admitted
              /\ callers[c2].result = "CallLimitExceededError"
           \/ /\ callers[c2].admitted /\ ~callers[c1].admitted
              /\ callers[c1].result = "CallLimitExceededError"

\* C4: a tolerated failure rolls back.  When the method of an admitted call
\* of weight w > 0 raises a tolerated error, reserved_weight decreases by w,
\* history and current_weight stay and the caller gets that error; and so a
\* call whose weight is the whole capacity, issued on a field that holds no
\* committed and no reserved weight (as it does after such a failure), is
\* admitted.
C4_ToleratedRollsBack ==
    [][ \A c \in Callers :
          LET me == callers[c]
              f == callLimits[me.name]
          IN  /\ ( /\ me.pc = "op" /\ me.admitted /\ callers'[c].pc = "done"
                   /\ IsTolerated(callers'[c].result) )
                 => /\ callLimits'[me.name].reserved_weight = f.reserved_weight - me.weight
                    /\ callLimits'[me.name].history = f.history
                    /\ callLimits'[me.name].current_weight = f.current_weight
              /\ ( /\ GateTaken(c) /\ IsField(me.name)
                   /\ me.weight = f.max_weight
                   /\ f.current_weight = 0 /\ f.reserved_weight = 0 )
                 => callers'[c].admitted
      ]_vars

\* C5: success or a non-tolerated failure commits.  When a guarded call of
\* weight w > 0 on a call field ends with a result or with an error that is
\* not tolerated, one entry has been added to history and current_weight has
\* grown by w.
C5_OtherwiseCommits ==
    [][ \A c \in Callers :
          LET me == callers[c]
              f == callLimits[me.name]
              r == callers'[c].result
          IN  ( /\ Completes(c) /\ IsField(me.name) /\ me.weight > 0
                /\ \/ r \in {"ok", "coroutine"}
                   \/ IsOrdinaryError(r) /\ ~IsTolerated(r) )
              => /\ Len(callLimits'[me.name].history) = Len(f.history) + 1
                 /\ callLimits'[me.name].current_weight = f.current_weight + me.weight
      ]_vars

\* C6: a denied call has no effect.  When the weight of a guarded call does
\* not fit (committed weight still in the window + reserved weight + weight
\* > max_weight), the call fails at the gate with CallLimitExceededError,
\* the method is not run and nothing is reserved or committed.
C6_DeniedCallNoEffect ==
    [][ \A c \in Callers :
          LET me == callers[c]
          IN  ( /\ GateTaken(c) /\ IsField(me.name) /\ me.weight > 0
                /\ FreshLoad(callLimits, me.name, now) + me.weight
                      > callLimits[me.name].max_weight )
              => /\ callers'[c].pc = "done"
                 /\ callers'[c].result = "CallLimitExceededError"
                 /\ ~callers'[c].ran /\ ~callers'[c].admitted
                 /\ callLimits'[me.name].reserved_weight = callLimits[me.name].reserved_weight
                 /\ FreshLoad(callLimits', me.name, now) = FreshLoad(callLimits, me.name, now)
      ]_vars

\* C7: for a call field and a weight > 0, isPossibleCall returns a boolean,
\* which is true exactly when the committed weight still in the window plus
\* the reserved weight plus the weight is at most max_weight.
C7_AdmissionFormula ==
    ( /\ last.op = "isPossibleCall"
      /\ last.name \in DOMAIN last.pre
      /\ last.weight > 0 )
    => /\ last.res \in {"True", "False"}
       /\ (last.res = "True")
             <=> (FreshLoad(last.pre, last.name, last.at) + last.weight
                     <= last.pre[last.name].max_weight)

\* C8: expired weight frees capacity.  A guarded call whose weight fits once
\* the entries older than time_interval are left out is admitted.
C8_ExpiredWeightFreed ==
    [][ \A c \in Callers :
          LET me == callers[c]
          IN  ( /\ GateTaken(c) /\ IsField(me.name) /\ me.weight > 0
                /\ FreshLoad(callLimits, me.name, now) + me.weight
                      <= callLimits[me.name].max_weight )
              => callers'[c].admitted
      ]_vars

\* The entries of h with a timestamp later than t - interval, in order.
Kept(h, t, interval) == SelectSeq(h, LAMBDA e : e[1] > t - interval)
Evicted(h, t, interval) == SelectSeq(h, LAMBDA e : e[1] <= t - interval)

\* C9: after refreshCallField the history holds exactly the earlier entries
\* with timestamp > now - time_interval, and current_weight has decreased by
\* the sum of the weights of the others.
C9_WindowCorrect ==
    ( /\ last.op = "refreshCallField"
      /\ last.res = "None" )
    => LET pre == last.pre[last.name]
           post == callLimits[last.name]
       IN  /\ post.history = Kept(pre.history, last.at, pre.time_interval)
           /\ post.current_weight = pre.current_weight
                 - SumWeights(Evicted(pre.history, last.at, pre.time_interval))

\* A refresh has evicted some entries and kept others.
C9_Witness ==
    /\ last.op = "refreshCallField"
    /\ last.res = "None"
    /\ callLimits[last.name].history # <<>>
    /\ Len(callLimits[last.name].history) < Len(last.pre[last.name].history)

\* The guarded call of caller c has returned or raised.
Done(c) == callers[c].pc = "done"

Loaded(cl, n, cw, rw, t) ==
    LET committed == IF cw > 0 THEN Commit(Reserve(cl, n, cw), n, cw, t) ELSE cl
    IN  IF rw > 0 THEN Reserve(committed, n, rw) ELSE committed

\* The registries the admission gate is tried on in a state: the registry of
\* the state, the registry without fields, and the registry of the state
\* with a field loaded with any committed and any reserved weight up to its
\* capacity each.
Registries ==
    {callLimits, <<>>}
    \cup {Loaded(callLimits, n, cw, rw, now) :
             n \in DOMAIN callLimits, cw \in 0..InitialLimits[3], rw \in 0..InitialLimits[3]}

\* The method of caller c finishes in this transition.
Finishes(c) == callers[c].pc = "op" /\ callers'[c].pc = "done"

\* C12: an empty field name is unconstrained.  isPossibleCall returns True
\* for the name None and for the empty string with every weight on every
\* registry and changes no field; a guarded call with such a name passes the
\* gate, runs the method and hands its result or its error to the caller,
\* and no step of it changes the registry.
C12_EmptyNameUnconstrained ==
    /\ [](\A cl \in Registries, name \in EmptyNames, w \in Weights :
            IsPossibleCall(cl, name, w, now) = [res |-> "True", cl |-> cl])
    /\ [][ \A c \in Callers :
             callers[c].name \in EmptyNames
             => /\ GateTaken(c) => callers'[c].pc = "op" /\ callLimits' = callLimits
                /\ Finishes(c) => /\ callers'[c].ran
                                  /\ callers'[c].result = callers'[c].produced
                                  /\ callLimits' = callLimits
       ]_vars

\* A guarded call with the name None and a weight that is not 0 has run its
\* method, which raised an error, and the caller got that error.
C12_Witness ==
    \E c \in Callers :
        /\ Done(c)
        /\ callers[c].name = NoneName
        /\ callers[c].weight # 0
        /\ callers[c].ran
        /\ callers[c].produced # "ok"
        /\ callers[c].result = callers[c].produced

\* C13: weight 0 on a registered field is always admissible.  For every
\* field of the registry, whatever committed and reserved weight it holds
\* (its capacity and more), isPossibleCall with weight 0 returns True and
\* changes nothing; a guarded call with weight 0 on a field passes the gate
\* and runs the method, and no step of it changes the registry.
C13_ZeroWeightAdmissible ==
    /\ [](\A cl \in Registries, name \in FieldNames :
            name \in DOMAIN cl
            => IsPossibleCall(cl, name, 0, now) = [res |-> "True", cl |-> cl])
    /\ [][ \A c \in Callers :
             (IsField(callers[c].name) /\ callers[c].weight = 0)
             => /\ GateTaken(c) => callers'[c].pc = "op" /\ callLimits' = callLimits
                /\ Finishes(c) => callers'[c].ran /\ callLimits' = callLimits
       ]_vars

\* A guarded call with weight 0 on a call field has run its method.
C13_Witness ==
    \E c \in Callers :
        /\ Done(c)
        /\ IsField(callers[c].name)
        /\ callers[c].weight = 0
        /\ callers[c].ran
        /\ callers[c].effect = <<0, 0, 0>>

\* C14: a name that is not empty and not registered is an error whatever
\* the weight.  isPossibleCall raises InvalidError for it with every weight
\* and changes nothing; a guarded call with it raises InvalidError at the
\* gate, the method is not run and the registry stays as it is.
C14_UnregisteredNameRejected ==
    /\ [](\A cl \in Registries, name \in FieldNames, w \in Weights :
            name \notin DOMAIN cl
            => IsPossibleCall(cl, name, w, now) = [res |-> "InvalidError", cl |-> cl])
    /\ [][ \A c \in Callers :
             ( /\ GateTaken(c)
               /\ callers[c].name \in FieldNames
               /\ ~IsField(callers[c].name) )
             => /\ callers'[c].pc = "done"
                /\ callers'[c].result = "InvalidError"
                /\ ~callers'[c].ran
                /\ callLimits' = callLimits
       ]_vars

\* A guarded call with weight 0 and a name that is no call field has failed
\* with InvalidError and its method has not run.
C14_Witness ==
    \E c \in Callers :
        /\ Done(c)
        /\ callers[c].name \in FieldNames
        /\ ~IsField(callers[c].name)
        /\ callers[c].weight = 0
        /\ callers[c].result = "InvalidError"
        /\ ~callers[c].ran

\* C15 as stated: whenever the weight is negative, whatever the field name,
\* isPossibleCall raises InvalidError on the registry of the connection and
\* changes nothing, and a guarded call fails with InvalidError at the gate
\* without running the method and without changing the registry.
C15_NegativeWeightRejected ==
    /\ [](\A name \in NameArgs, w \in Weights :
            w < 0
            => IsPossibleCall(callLimits, name, w, now)
                  = [res |-> "InvalidError", cl |-> callLimits])
    /\ [][ \A c \in Callers :
             (GateTaken(c) /\ callers[c].weight < 0)
             => /\ callers'[c].pc = "done"
                /\ callers'[c].result = "InvalidError"
                /\ ~callers'[c].ran
                /\ callLimits' = callLimits
       ]_vars

\* C15, amended: whenever the weight is negative and the field name is not
\* empty (neither None nor the empty string), isPossibleCall raises
\* InvalidError and changes nothing, and a guarded call fails with
\* InvalidError at the gate without running the method and without changing
\* the registry.
C15_NegativeWeightRejectedForName ==
    /\ [](\A cl \in Registries, name \in FieldNames, w \in Weights :
            w < 0
            => IsPossibleCall(cl, name, w, now) = [res |-> "InvalidError", cl |-> cl])
    /\ [][ \A c \in Callers :
             ( /\ GateTaken(c)
               /\ callers[c].weight < 0
               /\ callers[c].name \notin EmptyNames )
             => /\ callers'[c].pc = "done"
                /\ callers'[c].result = "InvalidError"
                /\ ~callers'[c].ran
                /\ callLimits' = callLimits
       ]_vars

\* A guarded call with a negative weight on a call field has failed with
\* InvalidError and its method has not run.
C15_Witness ==
    \E c \in Callers :
        /\ Done(c)
        /\ IsField(callers[c].name)
        /\ callers[c].weight < 0
        /\ callers[c].result = "InvalidError"
        /\ ~callers[c].ran

GoodRegistration ==
    /\ last.name \in FieldNames
    /\ last.name \notin DOMAIN last.pre
    /\ IsNumeric(last.args[1]) /\ last.args[1] > 0
    /\ IsNumeric(last.args[2]) /\ last.args[2] > 0

C18_Rejected ==
    (last.op = "addCallField" /\ ~GoodRegistration)
    => /\ last.res = "InvalidError"
       /\ callLimits = last.pre

\* A registration under a name that is registered already, with a good
\* interval and a good capacity, has been rejected.
C18_Witness ==
    /\ last.op = "addCallField"
    /\ last.name \in DOMAIN last.pre
    /\ IsNumeric(last.args[1]) /\ last.args[1] > 0
    /\ IsNumeric(last.args[2]) /\ last.args[2] > 0
    /\ last.res = "InvalidError"
    /\ callLimits = last.pre

\* The arguments of the latest call are error kinds, that is classes, at
\* least one.
KindsGiven ==
    /\ last.args # <<>>
    /\ \A i \in 1..Len(last.args) : last.args[i].form = "class"

\* The try statement settles a call of weight w on field n whose method
\* raises an error of kind e by rollback: the reservation is released,
\* nothing is committed and the caller gets the error.
SettledByRollback(n, w, e) ==
    LET reserved == Reserve(callLimits, n, w)
    IN  /\ Settle(reserved, n, w, e, now) = callLimits
        /\ Settled(e) = e

\* ... by commit: the reservation becomes committed weight with a history
\* entry, and the caller gets the error.
SettledByCommit(n, w, e) ==
    LET reserved == Reserve(callLimits, n, w)
    IN  /\ Settle(reserved, n, w, e, now) = Commit(reserved, n, w, now)
        /\ Settled(e) = e

\* C19: the tolerated set is extensible.  After addExceptionsForToleration
\* was given error kinds, the call has returned without error and a guarded
\* call whose method raises an error of one of these kinds is settled by
\* rollback; after removeExceptionsForToleration was given kinds that are
\* not default kinds, the call has returned without error and a guarded call
\* whose method raises an error of one of them is settled by commit.
C19_TolerationExtensible ==
    /\ (last.op = "addExceptionsForToleration" /\ KindsGiven)
       => /\ last.res = "None"
          /\ \A i \in 1..Len(last.args), n \in DOMAIN callLimits :
                SettledByRollback(n, 1, last.args[i].kind)
    /\ ( /\ last.op = "removeExceptionsForToleration" /\ KindsGiven
         /\ \A i \in 1..Len(last.args) : ~InDefaultCatching(last.args[i]) )
       => /\ last.res = "None"
          /\ \A i \in 1..Len(last.args), n \in DOMAIN callLimits :
                SettledByCommit(n, 1, last.args[i].kind)

\* C20: default tolerated kinds are permanent.  Every default kind is in the
\* tolerated set in every state, whatever add and remove calls came before,
\* successful or not; and a removeExceptionsForToleration that was given a
\* default kind has raised an InvalidError (InvalidError or a class derived
\* from it).
C20_DefaultsPermanent ==
    /\ \A k \in DefaultCatching : ClassOf(k) \in catching
    /\ ( /\ last.op = "removeExceptionsForToleration"
         /\ \E i \in 1..Len(last.args) : InDefaultCatching(last.args[i]) )
       => last.res \in DerivedFrom("InvalidError")

\* After an add call that extended the tolerated set, a remove call given
\* the default kind has been rejected, and the default kind is still in the
\* set.
C20_Witness ==
    /\ last.op = "removeExceptionsForToleration"
    /\ Len(last.args) = 1
    /\ InDefaultCatching(last.args[1])
    /\ last.res \in DerivedFrom("InvalidError")
    /\ last.tol # {ClassOf(k) : k \in DefaultCatching}
    /\ \A k \in DefaultCatching : ClassOf(k) \in catching

\* C23: a decorated method called without 'callFieldName' in its keyword
\* arguments is not affected by any limit field: when the call is over the
\* wrapped method has run, the caller has what the method produced, and the
\* call has changed no field.
C23_UnnamedCallUnaffected ==
    \A c \in Callers :
        ( Done(c) /\ callers[c].name = Absent )
        => /\ callers[c].ran
           /\ callers[c].result = EarlyExit(callers[c].produced)
           /\ callers[c].effect = <<0, 0, 0>>

\* C24: in the coroutine wrapper the reservation spans the suspension of
\* the method.  When a call of weight w > 0 through _makeCallAsync passes
\* the gate on a field that has room for it, the call is then suspended in
\* its method, not finished, with w added to reserved_weight and nothing
\* committed yet; and while an admitted call through _makeCallAsync is
\* suspended in its method, its weight is held in reserved_weight.
C24_ReservationSpansSuspension ==
    /\ [] ( \A c \in Callers :
              ( /\ callers[c].kind = "async" /\ callers[c].pc = "op"
                /\ callers[c].admitted )
              => callers[c].held = callers[c].weight )
    /\ [][ \A c \in Callers :
             LET me == callers[c]
                 f == callLimits[me.name]
             IN  ( /\ GateTaken(c) /\ me.kind = "async"
                   /\ IsField(me.name) /\ me.weight > 0
                   /\ FreshLoad(callLimits, me.name, now) + me.weight <= f.max_weight )
                 => /\ callers'[c].pc = "op"
                    /\ callers'[c].admitted /\ ~callers'[c].ran
                    /\ callLimits'[me.name].reserved_weight
                          = f.reserved_weight + me.weight
                    /\ Len(callLimits'[me.name].history) <= Len(f.history)
         ]_vars

\* Field g is field f after nothing but an eviction: the same
\* reserved_weight, max_weight and time_interval, a history that is what is
\* left of f's after its oldest entries were taken out, and a
\* current_weight lower by the weight of the entries taken out.
EvictedOnly(f, g) ==
    /\ g.reserved_weight = f.reserved_weight
    /\ g.max_weight = f.max_weight
    /\ g.time_interval = f.time_interval
    /\ Len(g.history) <= Len(f.history)
    /\ g.history = SubSeq(f.history, Len(f.history) - Len(g.history) + 1, Len(f.history))
    /\ g.current_weight
          = f.current_weight - (SumWeights(f.history) - SumWeights(g.history))

\* Registry cl2 has the fields of cl, each changed by nothing but an
\* eviction.
CommitsNothing(cl, cl2) ==
    /\ DOMAIN cl2 = DOMAIN cl
    /\ \A n \in DOMAIN cl : EvictedOnly(cl[n], cl2[n])

\* C22: isPossibleCall commits nothing.  After a call of isPossibleCall,
\* whatever the name, the weight and the result, every field has the
\* reserved_weight, max_weight and time_interval it had before, no history
\* entry has been added, and current_weight is lower by exactly the weight
\* of the entries evicted.
C22_CheckCommitsNothing ==
    last.op = "isPossibleCall" => CommitsNothing(last.pre, callLimits)

\* isPossibleCall has been called with a positive weight on a field whose
\* history held an entry that had left the window.
C22_Witness ==
    /\ last.op = "isPossibleCall"
    /\ last.weight > 0
    /\ last.name \in DOMAIN last.pre
    /\ last.pre[last.name].history # <<>>
    /\ last.at - last.pre[last.name].time_interval >= last.pre[last.name].history[1][1]
    /\ CommitsNothing(last.pre, callLimits)

C25_WeightIsHistorySum ==
    \A n \in DOMAIN callLimits :
        callLimits[n].current_weight = SumWeights(callLimits[n].history)

\* A refresh has evicted some entries of a field and kept others.
C25_Witness ==
    /\ last.op = "refreshCallField" /\ last.res = "None"
    /\ callLimits[last.name].history # <<>>
    /\ Len(callLimits[last.name].history) < Len(last.pre[last.name].history)
    /\ callLimits[last.name].current_weight = SumWeights(callLimits[last.name].history)
    /\ callLimits[last.name].current_weight > 0

\* C28: refresh is idempotent.  After a call of refreshCallField that
\* follows a call of refreshCallField on the same field at the same time,
\* the field has the current_weight, the history and the oldest_timestamp
\* it had after the first call.
C28_RefreshIdempotent ==
    ( last.op = "refreshCallField" /\ last.again )
    => LET f == last.pre[last.name]
           g == callLimits[last.name]
       IN  /\ g.current_weight = f.current_weight
           /\ g.history = f.history
           /\ g.oldest_timestamp = f.oldest_timestamp

\* The field has been refreshed twice at the same time and holds two or
\* more entries: the second refresh found an entry to take out and put
\* back.
C28_Witness ==
    /\ last.op = "refreshCallField" /\ last.again
    /\ Len(callLimits[last.name].history) >= 2
    /\ callLimits[last.name] = last.pre[last.name]

\* C30: the registry only grows and field configuration is immutable.  In
\* every step every registered name stays registered with the time_interval
\* and the max_weight it has; and a name becomes registered only in a call
\* of addCallField with that name, with the time_interval and the
\* max_weight given in the call.
C30_RegistryGrowsOnly ==
    [][ /\ \A n \in DOMAIN callLimits :
              /\ n \in DOMAIN callLimits'
              /\ callLimits'[n].time_interval = callLimits[n].time_interval
              /\ callLimits'[n].max_weight = callLimits[n].max_weight
        /\ \A n \in DOMAIN callLimits' \ DOMAIN callLimits :
              /\ callers' = callers
              /\ last'.op = "addCallField" /\ last'.name = n
              /\ callLimits'[n].time_interval = last'.args[1]
              /\ callLimits'[n].max_weight = last'.args[2]
      ]_vars

\* A second field has been registered, with the values given, beside a
\* field that holds committed entries and is as it was.
C30_Witness ==
    /\ last.op = "addCallField" /\ last.res = "ok"
    /\ last.name \in DOMAIN callLimits \ DOMAIN last.pre
    /\ callLimits[last.name].time_interval = last.args[1]
    /\ callLimits[last.name].max_weight = last.args[2]
    /\ \E n \in DOMAIN last.pre :
          /\ last.pre[n].history # <<>>
          /\ callLimits[n] = last.pre[n]

\* C29: default classification.  With the default tolerated set, a guarded
\* call of weight w > 0 that fits its field is admitted and its method is
\* run; when the method raises an error of the kind AutoTradeConnectionError
\* or of a kind derived from it, the call is settled by rollback
\* (reserved_weight lower by w, nothing committed), and when it raises any
\* other error, RequestTimeout of the HTTP transport among them, the call is
\* settled by commit (one more history entry, current_weight higher by w).
C29_DefaultClassification ==
    [][ \A c \in Callers :
          LET me == callers[c]
              f == callLimits[me.name]
              g == callLimits'[me.name]
              e == callers'[c].produced
          IN  /\ ( /\ GateTaken(c) /\ IsField(me.name) /\ me.weight > 0
                   /\ catching = {ClassOf(k) : k \in DefaultCatching}
                   /\ FreshLoad(callLimits, me.name, now) + me.weight <= f.max_weight )
                 => callers'[c].admitted
              /\ ( /\ Finishes(c) /\ me.admitted /\ IsOrdinaryError(e)
                   /\ catching = {ClassOf(k) : k \in DefaultCatching} )
                 => IF e \in DerivedFrom("AutoTradeConnectionError")
                    THEN /\ g.reserved_weight = f.reserved_weight - me.weight
                         /\ g.history = f.history
                         /\ g.current_weight = f.current_weight
                    ELSE /\ g.reserved_weight = f.reserved_weight - me.weight
                         /\ Len(g.history) = Len(f.history) + 1
                         /\ g.current_weight = f.current_weight + me.weight
      ]_vars

\* The elements of the argument list args.
Given(args) == {args[i] : i \in 1..Len(args)}

\* The latest call is a removeExceptionsForToleration that follows an
\* addExceptionsForToleration with the same arguments, none of them a
\* default kind.
RemovedAfterAdd ==
    /\ last.op = "removeExceptionsForToleration"
    /\ last.undoes.add
    /\ last.args # <<>>
    /\ \A x \in Given(last.args) : ~InDefaultCatching(x)

\* C31 as stated: adding and removing tolerated kinds is idempotent and
\* reversible.  An add whose arguments are all in the tolerated set leaves
\* the set as it was; a remove whose arguments are all outside it leaves it
\* as it was; and after an add of non-default kinds followed by the remove
\* of the same kinds the set is what it was before the add.
C31_AddRemoveReversible ==
    /\ ( last.op = "addExceptionsForToleration" /\ Given(last.args) \subseteq last.tol )
       => catching = last.tol
    /\ ( last.op = "removeExceptionsForToleration"
         /\ Given(last.args) \cap last.tol = {} )
       => catching = last.tol
    /\ RemovedAfterAdd => catching = last.undoes.tol

\* C31, amended: the same, with the add followed by the remove restoring
\* the set when none of the arguments was in the set before the add.
C31_AddRemoveReversibleIfNew ==
    /\ ( last.op = "addExceptionsForToleration" /\ Given(last.args) \subseteq last.tol )
       => catching = last.tol
    /\ ( last.op = "removeExceptionsForToleration"
         /\ Given(last.args) \cap last.tol = {} )
       => catching = last.tol
    /\ ( RemovedAfterAdd /\ Given(last.args) \cap last.undoes.tol = {} )
       => catching = last.undoes.tol

\* An add has put a new element into the tolerated set, the remove after it
\* has taken it out, both returned, and the set is what it was before the
\* add.
C31_Witness ==
    /\ RemovedAfterAdd
    /\ last.res = "None" /\ last.undoes.res = "None"
    /\ Given(last.args) \cap last.undoes.tol = {}
    /\ Given(last.args) \subseteq last.tol
    /\ catching = last.undoes.tol

\* The item is one that addCallField accepts: a non-empty string as name, an
\* interval > 0 and a max weight > 0.
ValidItem(e) == e[1] \notin EmptyNames /\ e[2] > 0 /\ e[3] > 0

\* C32: construction registers the given limits.  Constructed with None the
\* connection has an empty registry; constructed with a dict of valid
\* limits it has exactly one field per key, with the interval and the max
\* weight given, an empty history and zero weights; constructed with a
\* non-empty value that is no dict the constructor fails with InvalidError.
C32_ConstructionRegisters ==
    last.op = "__init__" =>
        /\ last.name = "None" => ( last.res = "None" /\ callLimits = <<>> )
        /\ ( last.name = "dict" /\ \A i \in 1..Len(last.args) : ValidItem(last.args[i]) )
           => /\ last.res = "None"
              /\ DOMAIN callLimits = {last.args[i][1] : i \in 1..Len(last.args)}
              /\ \A i \in 1..Len(last.args) :
                    LET f == callLimits[last.args[i][1]]
                    IN  /\ f.time_interval = last.args[i][2]
                        /\ f.max_weight = last.args[i][3]
                        /\ f.history = <<>>
                        /\ f.current_weight = 0 /\ f.reserved_weight = 0
        /\ ( last.name = "other" /\ last.args # <<>> )
           => last.res \in DerivedFrom("InvalidError")

\* A connection has been constructed with a dict of two limits and has the
\* two fields.
C32_Witness ==
    /\ last.op = "__init__" /\ last.name = "dict" /\ last.res = "None"
    /\ Len(last.args) = 2
    /\ DOMAIN callLimits = FieldNames
    /\ \A n \in FieldNames : callLimits[n].history = <<>>

\* C33: a rejected add or remove of tolerated kinds changes nothing.  When
\* addExceptionsForToleration or removeExceptionsForToleration has raised,
\* the tolerated set is what it was before the call, wherever the invalid
\* argument stood among the arguments.
C33_RejectedChangesNothing ==
    ( /\ last.op \in {"addExceptionsForToleration", "removeExceptionsForToleration"}
      /\ last.res # "None" )
    => catching = last.tol

\* C35: the tuple of the except clause mirrors the tolerated set.  After
\* construction and after every call of addExceptionsForToleration or
\* removeExceptionsForToleration, returned or raised, __catching_tuple holds
\* exactly the elements of __catching_set.
C35_TupleMirrorsSet == catchingTuple = catching

\* A call of a toleration method has raised after it had changed the set,
\* and the tuple holds the elements of the changed set.
C35_Witness ==
    /\ last.op \in {"addExceptionsForToleration", "removeExceptionsForToleration"}
    /\ last.res # "None"
    /\ catching # last.tol
    /\ catchingTuple = catching

\* C34: refresh only evicts.  After a call of refreshCallField the field
\* has the reserved_weight, max_weight and time_interval it had, its history
\* is what is left of the old one after its oldest entries were taken out
\* (no entry added, none taken out twice), current_weight is lower by the
\* weight of the entries taken out and not below 0, and every other field
\* is as it was.
C34_RefreshOnlyEvicts ==
    /\ ( last.op = "refreshCallField" /\ last.res = "None" )
       => /\ DOMAIN callLimits = DOMAIN last.pre
          /\ EvictedOnly(last.pre[last.name], callLimits[last.name])
          /\ callLimits[last.name].current_weight <= last.pre[last.name].current_weight
          /\ \A n \in DOMAIN callLimits \ {last.name} : callLimits[n] = last.pre[n]
    /\ \A n \in DOMAIN callLimits : callLimits[n].current_weight >= 0

\* A refresh has taken every entry out of a history of two or more entries
\* and has left current_weight at 0.
C34_Witness ==
    /\ last.op = "refreshCallField" /\ last.res = "None"
    /\ Len(last.pre[last.name].history) >= 2
    /\ callLimits[last.name].history = <<>>
    /\ callLimits[last.name].current_weight = 0
    /\ callLimits[last.name].reserved_weight = last.pre[last.name].reserved_weight

====
